---------------------------- MODULE Spec2Model ----------------------------
(***************************************************************************)
(* A model of bfcpp's UsdFuturesMarket (bfcpp/bfcpplib/Futures.hpp): the   *)
(* registry of websocket sessions with their receive loops, the user data  *)
(* stream with its keepalive timer, and the REST side (query string,       *)
(* signature, receive windows, dispatch).                                  *)
(*                                                                         *)
(* Futures.cpp, bfcppCommon.hpp and IntervalTimer.hpp are not part of the  *)
(* sources at hand; the operations they define (connect, createMonitor,    *)
(* createReceiveTask, disconnect, monitorUserData, createListenKey,        *)
(* extractUsdFuturesUserData, createSignature, createInvalidRestResult,    *)
(* getTimestamp, IntervalTimer) follow the design document and are marked  *)
(* as such where they are defined.                                         *)
(***************************************************************************)
EXTENDS Integers, Sequences, FiniteSets, TLC

(***************************************************************************)
(* Bounds of the model.                                                    *)
(***************************************************************************)
\* number of websocket sessions ever connected
MaxSessions == 2
\* number of frames the transports hand over, all sessions together
MaxFrames == 2

Threads == {1, 2}
SessIds == 1 .. MaxSessions
\* the ids a caller may present to cancelMonitor: every id that can be issued
\* and one that never is
TokenIds == 1 .. (MaxSessions + 1)
Symbols == {"BTCUSDT", "ETHUSDT"}
\* what the transport can hand to receive(): a JSON text, a text that is not
\* JSON, an empty text, or a failure of the connection
FrameKinds == {"json", "notjson", "empty", "connerr"}
NoFrame == [sess |-> 0, seq |-> 0, kind |-> "none"]

VARIABLES
  \* ---- UsdFuturesMarket members (Futures.hpp:449-462)
  m_monitorId,    \* std::atomic_size_t, the next MonitorToken id
  m_sessions,     \* vector<shared_ptr<WebSocketSession>>
  m_idToSession,  \* map<MonitorTokenId, shared_ptr<WebSocketSession>>
  \* ---- WebSocketSession objects, by allocation number
  nalloc,         \* sessions connected so far
  sessionId,      \* session->id
  uri,            \* session->uri (the symbol of the stream)
  cancelled,      \* session->getCancelToken().is_canceled()
  connected,      \* the transport is open
  taskState,      \* where the session's receive task is
  cur,            \* the frame the continuation of receive() holds
  inbox,          \* frames the transport has, not yet handed to receive()
  arrived,        \* number of frames the transport got
  \* ---- callbacks (onData), one per symbol
  delivered,      \* the frames each callback was invoked with, in order
  active,         \* callback invocations in progress, per session
  \* ---- caller threads
  pc, arg, snap, lastError,
  \* ---- history
  issued,         \* ids of the tokens monitor functions returned
  unsubReturned,  \* ids for which cancelMonitor disconnected and returned
  lastNoop,       \* the last cancelMonitor call that found no session
  wokeByCancel,   \* sessions whose pending receive() was cut by cancel
  \* ---- the user data stream (lines 459, 462) and closing every stream
  m_listenKey,            \* string, "" until a listen key is created
  m_userDataStreamTimer,  \* IntervalTimer: "stopped", "running", "failed"
  renewLog,               \* the status each onUserDataTimer call got, in order
  keepAliveErrors,        \* keep-alive errors raised to the owner of the timer
  closeAll,               \* what the last cancelMonitors call that returned closed
  \* ---- REST side
  m_apiAccess,        \* ApiAccess {apiKey, secretKey}, line 460
  ReceiveWindowMap,   \* map<RestCall, string>, lines 31-42
  now,                \* the clock getTimestamp() reads, in ms
  restPc,             \* "idle", "sent" (request dispatched), "done"
  request,            \* the http_request handed to client.request()
  response,           \* the http_response
  result,             \* what the task returned by sendRestRequest holds
  restError,          \* what the last sendRestRequest call threw
  built,              \* the query string a call has built, before it dispatches
  \* ---- history
  attempt,            \* the arguments and the configuration of the last call
  lastSet             \* per call kind, the ms last given to setReceiveWindow

userVars == <<m_listenKey, m_userDataStreamTimer, renewLog, keepAliveErrors,
              closeAll>>

streamVars == <<m_monitorId, m_sessions, m_idToSession, nalloc, sessionId, uri,
                cancelled, connected, taskState, cur, inbox, arrived,
                delivered, active, pc, arg, snap, lastError,
                issued, unsubReturned, lastNoop, wokeByCancel, userVars>>

restVars == <<m_apiAccess, ReceiveWindowMap, now, restPc, request, response,
              result, restError, attempt, lastSet, built>>

vars == <<streamVars, restVars>>

NoArg == [id |-> 0, sid |-> 0]
NoSnap == [sessions |-> <<>>, map |-> <<>>]
\* the listen key the exchange hands out
ListenKey == "listenKey"
\* the callbacks: one per symbol stream, one for the user data stream
Streams == Symbols \cup {ListenKey}
NoCloseAll == [returned |-> FALSE, sessions |-> {}]

InitStream ==
  /\ m_monitorId = 1
  /\ m_sessions = <<>>
  /\ m_idToSession = <<>>
  /\ nalloc = 0
  /\ sessionId = [s \in SessIds |-> 0]
  /\ uri = [s \in SessIds |-> "none"]
  /\ cancelled = [s \in SessIds |-> FALSE]
  /\ connected = [s \in SessIds |-> FALSE]
  /\ taskState = [s \in SessIds |-> "none"]
  /\ cur = [s \in SessIds |-> NoFrame]
  /\ inbox = [s \in SessIds |-> <<>>]
  /\ arrived = [s \in SessIds |-> 0]
  /\ delivered = [y \in Streams |-> <<>>]
  /\ active = [s \in SessIds |-> 0]
  /\ pc = [t \in Threads |-> "idle"]
  /\ arg = [t \in Threads |-> NoArg]
  /\ snap = [t \in Threads |-> NoSnap]
  /\ lastError = [t \in Threads |-> "none"]
  /\ issued = {}
  /\ unsubReturned = {}
  /\ lastNoop = "none"
  /\ wokeByCancel = [s \in SessIds |-> FALSE]
  /\ m_listenKey = ""
  /\ m_userDataStreamTimer = "stopped"
  /\ renewLog = <<>>
  /\ keepAliveErrors = 0
  /\ closeAll = NoCloseAll

(***************************************************************************)
(* Helpers on the registry.                                                *)
(***************************************************************************)
\* m_idToSession[id] = session
MapPut(m, id, sid) == [i \in (DOMAIN m) \cup {id} |-> IF i = id THEN sid ELSE m[i]]

\* m_idToSession.erase(id)
MapErase(m, id) == [i \in (DOMAIN m) \ {id} |-> m[i]]

\* m_sessions.erase(find_if(... sesh->id == id))
RECURSIVE VecErase(_, _)
VecErase(v, sid) ==
  IF v = <<>> THEN <<>>
  ELSE IF Head(v) = sid THEN Tail(v)
  ELSE <<Head(v)>> \o VecErase(Tail(v), sid)

Exited(s) == taskState[s] \in {"canceled", "faulted"}

(***************************************************************************)
(* subscribe: the monitor functions, through createMonitor.                *)
(* Futures.hpp declares createMonitor, connect and createReceiveTask       *)
(* (lines 362-368, 408); their bodies follow the design document, 4.1:     *)
(* open a session, start its receive loop on its own task, register        *)
(* handle -> session, return the handle.  The id comes from the atomic     *)
(* counter m_monitorId (line 455), set to 1 by the constructor (line 48).  *)
(***************************************************************************)
connect(t, y) ==
  /\ pc[t] = "idle"
  /\ nalloc < MaxSessions
  /\ nalloc' = nalloc + 1
  /\ uri' = [uri EXCEPT ![nalloc + 1] = y]
  /\ connected' = [connected EXCEPT ![nalloc + 1] = TRUE]
  /\ arg' = [arg EXCEPT ![t] = [id |-> 0, sid |-> nalloc + 1]]
  /\ pc' = [pc EXCEPT ![t] = "createReceiveTask"]
  /\ lastError' = [lastError EXCEPT ![t] = "none"]
  /\ UNCHANGED <<m_monitorId, m_sessions, m_idToSession, sessionId, cancelled,
                 taskState, cur, inbox, arrived, delivered, active, snap,
                 issued, unsubReturned, lastNoop, wokeByCancel>>
  /\ UNCHANGED userVars
  /\ UNCHANGED restVars

\* the transport cannot connect: the monitor function returns an invalid token
connectFails(t, y) ==
  /\ pc[t] = "idle"
  /\ nalloc < MaxSessions
  /\ lastError[t] # "ConnectionError"
  /\ lastError' = [lastError EXCEPT ![t] = "ConnectionError"]
  /\ UNCHANGED <<m_monitorId, m_sessions, m_idToSession, nalloc, sessionId, uri,
                 cancelled, connected, taskState, cur, inbox, arrived,
                 delivered, active, pc, arg, snap,
                 issued, unsubReturned, lastNoop, wokeByCancel>>
  /\ UNCHANGED userVars
  /\ UNCHANGED restVars

\* an allocation that hands out the smallest id no registered session has
createReceiveTask_reuse(t) ==
  /\ pc[t] = "createReceiveTask"
  /\ LET id == CHOOSE i \in 1 .. (MaxSessions + 1) :
                 /\ i \notin DOMAIN m_idToSession
                 /\ \A j \in 1 .. (i - 1) : j \in DOMAIN m_idToSession
     IN  /\ sessionId' = [sessionId EXCEPT ![arg[t].sid] = id]
         /\ arg' = [arg EXCEPT ![t].id = id]
  /\ m_monitorId' = m_monitorId + 1
  /\ taskState' = [taskState EXCEPT ![arg[t].sid] = "loop"]
  /\ pc' = [pc EXCEPT ![t] = "register"]
  /\ UNCHANGED <<m_sessions, m_idToSession, nalloc, uri, cancelled, connected,
                 cur, inbox, arrived, delivered, active, snap, lastError,
                 issued, unsubReturned, lastNoop, wokeByCancel>>
  /\ UNCHANGED userVars
  /\ UNCHANGED restVars

\* monitorToken.id = m_monitorId++ (atomic), and the receive task starts
createReceiveTask(t) ==
  /\ pc[t] = "createReceiveTask"
  /\ m_monitorId' = m_monitorId + 1
  /\ sessionId' = [sessionId EXCEPT ![arg[t].sid] = m_monitorId]
  /\ taskState' = [taskState EXCEPT ![arg[t].sid] = "loop"]
  /\ arg' = [arg EXCEPT ![t].id = m_monitorId]
  /\ pc' = [pc EXCEPT ![t] = "register"]
  /\ UNCHANGED <<m_sessions, m_idToSession, nalloc, uri, cancelled, connected,
                 cur, inbox, arrived, delivered, active, snap, lastError,
                 issued, unsubReturned, lastNoop, wokeByCancel>>
  /\ UNCHANGED userVars
  /\ UNCHANGED restVars

\* m_sessions.push_back(session); m_idToSession[id] = session.  No member of
\* the class is a mutex (lines 449-462) and cancelMonitor takes none (lines
\* 226-232), so the two containers are updated unguarded: the update is a
\* read of the containers followed by a write of the new ones, and a write of
\* another thread between the two is lost.
registerRead(t) ==
  /\ pc[t] = "register"
  /\ snap' = [snap EXCEPT ![t] = [sessions |-> m_sessions, map |-> m_idToSession]]
  /\ pc' = [pc EXCEPT ![t] = "registerWrite"]
  /\ UNCHANGED <<m_monitorId, m_sessions, m_idToSession, nalloc, sessionId, uri,
                 cancelled, connected, taskState, cur, inbox, arrived,
                 delivered, active, arg, lastError,
                 issued, unsubReturned, lastNoop, wokeByCancel>>
  /\ UNCHANGED userVars
  /\ UNCHANGED restVars

createMonitor(t) ==
  /\ pc[t] = "registerWrite"
  /\ m_sessions' = Append(snap[t].sessions, arg[t].sid)
  /\ m_idToSession' = MapPut(snap[t].map, arg[t].id, arg[t].sid)
  /\ issued' = issued \cup {arg[t].id}
  /\ pc' = [pc EXCEPT ![t] = "idle"]
  /\ arg' = [arg EXCEPT ![t] = NoArg]
  /\ snap' = [snap EXCEPT ![t] = NoSnap]
  /\ UNCHANGED <<m_monitorId, nalloc, sessionId, uri, cancelled, connected,
                 taskState, cur, inbox, arrived, delivered, active, lastError,
                 unsubReturned, lastNoop, wokeByCancel>>
  /\ UNCHANGED userVars
  /\ UNCHANGED restVars

(***************************************************************************)
(* unsubscribe: cancelMonitor (lines 226-232) and disconnect(mt, true).    *)
(* disconnect is declared at line 364; its body follows the design         *)
(* document, 4.1: set the cancel flag, request transport close, block      *)
(* until the receive loop has exited, then remove the registry entry.      *)
(***************************************************************************)
\* the first half of disconnect(mt, true): cancel the token, ask the transport
\* to close; the caller then blocks on the receive task
disconnect_cancel(t, id) ==
  /\ cancelled' = [cancelled EXCEPT ![m_idToSession[id]] = TRUE]
  /\ connected' = [connected EXCEPT ![m_idToSession[id]] = FALSE]
  /\ arg' = [arg EXCEPT ![t] = [id |-> id, sid |-> m_idToSession[id]]]
  /\ pc' = [pc EXCEPT ![t] = "disconnect"]
  /\ lastError' = [lastError EXCEPT ![t] = "none"]
  /\ UNCHANGED lastNoop

\* a cancelMonitor that treats an unknown token as an error
cancelMonitor_throws(t, id) ==
  /\ pc[t] = "idle"
  /\ IF id \in DOMAIN m_idToSession
       THEN disconnect_cancel(t, id)
       ELSE /\ lastNoop' = (IF id \in issued THEN "unsubscribed" ELSE "never issued")
            /\ lastError' = [lastError EXCEPT ![t] = "BfcppException"]
            /\ UNCHANGED <<cancelled, connected, arg, pc>>
  /\ UNCHANGED <<m_monitorId, m_sessions, m_idToSession, nalloc, sessionId, uri,
                 taskState, cur, inbox, arrived, delivered, active, snap,
                 issued, unsubReturned, wokeByCancel>>
  /\ UNCHANGED userVars
  /\ UNCHANGED restVars

\* a cancelMonitor that erases the handle at once and leaves the session in
\* the list
cancelMonitor_mapOnly(t, id) ==
  /\ pc[t] = "idle"
  /\ IF id \in DOMAIN m_idToSession
       THEN /\ cancelled' = [cancelled EXCEPT ![m_idToSession[id]] = TRUE]
            /\ connected' = [connected EXCEPT ![m_idToSession[id]] = FALSE]
            /\ m_idToSession' = MapErase(m_idToSession, id)
            /\ UNCHANGED lastNoop
       ELSE /\ lastNoop' = (IF id \in issued THEN "unsubscribed" ELSE "never issued")
            /\ UNCHANGED <<cancelled, connected, m_idToSession>>
  /\ UNCHANGED <<m_monitorId, m_sessions, nalloc, sessionId, uri,
                 taskState, cur, inbox, arrived, delivered, active, pc, arg,
                 snap, lastError, issued, unsubReturned, wokeByCancel>>
  /\ UNCHANGED userVars
  /\ UNCHANGED restVars

\* a cancelMonitor that cancels, removes the entries and returns without
\* waiting for the receive task
cancelMonitor_eraseNow(t, id) ==
  /\ pc[t] = "idle"
  /\ IF id \in DOMAIN m_idToSession
       THEN /\ cancelled' = [cancelled EXCEPT ![m_idToSession[id]] = TRUE]
            /\ connected' = [connected EXCEPT ![m_idToSession[id]] = FALSE]
            /\ m_sessions' = VecErase(m_sessions, m_idToSession[id])
            /\ m_idToSession' = MapErase(m_idToSession, id)
            /\ unsubReturned' = unsubReturned \cup {id}
            /\ UNCHANGED lastNoop
       ELSE /\ lastNoop' = (IF id \in issued THEN "unsubscribed" ELSE "never issued")
            /\ UNCHANGED <<cancelled, connected, m_sessions, m_idToSession,
                           unsubReturned>>
  /\ UNCHANGED <<m_monitorId, nalloc, sessionId, uri,
                 taskState, cur, inbox, arrived, delivered, active, pc, arg,
                 snap, lastError, issued, wokeByCancel>>
  /\ UNCHANGED userVars
  /\ UNCHANGED restVars

\* lines 226-232
cancelMonitor(t, id) ==
  /\ pc[t] = "idle"
  /\ IF id \in DOMAIN m_idToSession
       THEN \* line 230
            disconnect_cancel(t, id)
       ELSE \* it == m_idToSession.end(): nothing is done
            /\ lastNoop' = (IF id \in issued THEN "unsubscribed" ELSE "never issued")
            /\ UNCHANGED <<cancelled, connected, arg, pc, lastError>>
  /\ UNCHANGED <<m_monitorId, m_sessions, m_idToSession, nalloc, sessionId, uri,
                 taskState, cur, inbox, arrived, delivered, active, snap,
                 issued, unsubReturned, wokeByCancel>>
  /\ UNCHANGED userVars
  /\ UNCHANGED restVars

disconnect(t) ==
  /\ pc[t] = "disconnect"
  /\ Exited(arg[t].sid)
  /\ m_sessions' = VecErase(m_sessions, arg[t].sid)
  /\ m_idToSession' = MapErase(m_idToSession, arg[t].id)
  /\ unsubReturned' = unsubReturned \cup {arg[t].id}
  /\ pc' = [pc EXCEPT ![t] = "idle"]
  /\ arg' = [arg EXCEPT ![t] = NoArg]
  /\ UNCHANGED <<m_monitorId, nalloc, sessionId, uri, cancelled, connected,
                 taskState, cur, inbox, arrived, delivered, active, snap,
                 lastError, issued, lastNoop, wokeByCancel>>
  /\ UNCHANGED userVars
  /\ UNCHANGED restVars

(***************************************************************************)
(* closeAll: cancelMonitors (lines 238-241) and the destructor (lines      *)
(* 59-62) both call disconnect().  disconnect() is declared at line 365;   *)
(* its body follows the design document, 4.1: unsubscribe every live       *)
(* handle, that is, what disconnect(mt, true) does, for every entry of     *)
(* m_idToSession.                                                          *)
(***************************************************************************)
\* the sessions the handles of a map refer to
SessionsOf(m) == {m[id] : id \in DOMAIN m}

\* the first half of disconnect(): cancel every token, ask every transport to
\* close; the caller then blocks on the receive tasks
disconnect_cancelAll(t) ==
  /\ cancelled' = [s \in SessIds |-> cancelled[s] \/ s \in SessionsOf(m_idToSession)]
  /\ connected' = [s \in SessIds |-> connected[s] /\ s \notin SessionsOf(m_idToSession)]
  /\ snap' = [snap EXCEPT ![t] = [sessions |-> m_sessions, map |-> m_idToSession]]
  /\ pc' = [pc EXCEPT ![t] = "disconnectAll"]

\* a cancelMonitors that cancels every token and returns without waiting
cancelMonitors_cancelOnly(t) ==
  /\ pc[t] = "idle"
  /\ cancelled' = [s \in SessIds |-> cancelled[s] \/ s \in SessionsOf(m_idToSession)]
  /\ connected' = [s \in SessIds |-> connected[s] /\ s \notin SessionsOf(m_idToSession)]
  /\ closeAll' = [returned |-> TRUE, sessions |-> SessionsOf(m_idToSession)]
  /\ UNCHANGED <<m_monitorId, m_sessions, m_idToSession, nalloc, sessionId, uri,
                 taskState, cur, inbox, arrived, delivered, active, pc, arg,
                 snap, lastError, issued, unsubReturned, lastNoop, wokeByCancel>>
  /\ UNCHANGED <<m_listenKey, m_userDataStreamTimer, renewLog, keepAliveErrors>>
  /\ UNCHANGED restVars

\* lines 238-241
cancelMonitors(t) ==
  /\ pc[t] = "idle"
  /\ disconnect_cancelAll(t)
  /\ UNCHANGED <<m_monitorId, m_sessions, m_idToSession, nalloc, sessionId, uri,
                 taskState, cur, inbox, arrived, delivered, active, arg,
                 lastError, issued, unsubReturned, lastNoop, wokeByCancel>>
  /\ UNCHANGED userVars
  /\ UNCHANGED restVars

\* the second half of disconnect(): every receive task has exited, the
\* entries are removed, the call returns
disconnect_all(t) ==
  /\ pc[t] = "disconnectAll"
  /\ \A s \in SessionsOf(snap[t].map) : Exited(s)
  /\ m_sessions' = SelectSeq(m_sessions, LAMBDA s : s \notin SessionsOf(snap[t].map))
  /\ m_idToSession' = [id \in (DOMAIN m_idToSession) \ (DOMAIN snap[t].map) |->
                         m_idToSession[id]]
  /\ unsubReturned' = unsubReturned \cup DOMAIN snap[t].map
  /\ closeAll' = [returned |-> TRUE, sessions |-> SessionsOf(snap[t].map)]
  /\ pc' = [pc EXCEPT ![t] = "idle"]
  /\ snap' = [snap EXCEPT ![t] = NoSnap]
  /\ UNCHANGED <<m_monitorId, nalloc, sessionId, uri, cancelled, connected,
                 taskState, cur, inbox, arrived, delivered, active, arg,
                 lastError, issued, lastNoop, wokeByCancel>>
  /\ UNCHANGED <<m_listenKey, m_userDataStreamTimer, renewLog, keepAliveErrors>>
  /\ UNCHANGED restVars

(***************************************************************************)
(* The transport: frames arrive on an open connection, in order.           *)
(***************************************************************************)
RECURSIVE TotalArrived(_)
TotalArrived(n) == IF n = 0 THEN 0 ELSE arrived[n] + TotalArrived(n - 1)

frameArrives(s, k) ==
  /\ s <= nalloc
  /\ connected[s]
  /\ TotalArrived(MaxSessions) < MaxFrames
  /\ arrived' = [arrived EXCEPT ![s] = @ + 1]
  /\ inbox' = [inbox EXCEPT ![s] = Append(@, [sess |-> s, seq |-> arrived[s] + 1, kind |-> k])]
  \* a failed connection delivers nothing more
  /\ connected' = [connected EXCEPT ![s] = (k # "connerr")]
  /\ UNCHANGED <<m_monitorId, m_sessions, m_idToSession, nalloc, sessionId, uri,
                 cancelled, taskState, cur, delivered, active,
                 pc, arg, snap, lastError,
                 issued, unsubReturned, lastNoop, wokeByCancel>>
  /\ UNCHANGED userVars
  /\ UNCHANGED restVars

(***************************************************************************)
(* The receive loop, handleUserDataStream (lines 293-356), one task per    *)
(* session.  taskState is the place of the task:                           *)
(*   "loop"      at the while condition, line 295                          *)
(*   "waiting"   in wait() at line 347, receive() pending                  *)
(*   "received"  the continuation of receive() starts, line 301            *)
(*   "extract"   the continuation of extract_string(), line 310            *)
(*   "callback"  inside onData, called by extractUsdFuturesUserData        *)
(*   "canceled"  left through cancel_current_task(), line 355              *)
(*   "faulted"   left through an exception, lines 349-352                  *)
(***************************************************************************)
\* a loop that starts over after an error
handleUserDataStream_while_retry(s) ==
  /\ taskState[s] \in {"loop", "faulted"}
  /\ taskState' = [taskState EXCEPT ![s] = IF cancelled[s] THEN "canceled" ELSE "waiting"]
  /\ UNCHANGED <<m_monitorId, m_sessions, m_idToSession, nalloc, sessionId, uri,
                 cancelled, connected, cur, inbox, arrived, delivered, active,
                 pc, arg, snap, lastError,
                 issued, unsubReturned, lastNoop, wokeByCancel>>
  /\ UNCHANGED userVars
  /\ UNCHANGED restVars

\* line 295: while (!session->getCancelToken().is_canceled())
handleUserDataStream_while(s) ==
  /\ taskState[s] = "loop"
  /\ taskState' = [taskState EXCEPT ![s] = IF cancelled[s] THEN "canceled" ELSE "waiting"]
  /\ UNCHANGED <<m_monitorId, m_sessions, m_idToSession, nalloc, sessionId, uri,
                 cancelled, connected, cur, inbox, arrived, delivered, active,
                 pc, arg, snap, lastError,
                 issued, unsubReturned, lastNoop, wokeByCancel>>
  /\ UNCHANGED userVars
  /\ UNCHANGED restVars

\* a continuation created without the cancel token: wait() returns only
\* when a frame has arrived
handleUserDataStream_noToken(s) ==
  /\ taskState[s] = "waiting"
  /\ cancelled[s]
  /\ inbox[s] # <<>>
  /\ taskState' = [taskState EXCEPT ![s] = "loop"]
  /\ UNCHANGED <<m_monitorId, m_sessions, m_idToSession, nalloc, sessionId, uri,
                 cancelled, connected, cur, inbox, arrived, delivered, active,
                 pc, arg, snap, lastError,
                 issued, unsubReturned, lastNoop, wokeByCancel>>
  /\ UNCHANGED userVars
  /\ UNCHANGED restVars

\* lines 299, 347: the continuation is created with the session's cancel
\* token, so cancelling the token cancels the pending continuation and
\* wait() returns although no frame arrived
handleUserDataStream_cancelled(s) ==
  /\ taskState[s] = "waiting"
  /\ cancelled[s]
  /\ taskState' = [taskState EXCEPT ![s] = "loop"]
  /\ wokeByCancel' = [wokeByCancel EXCEPT ![s] = @ \/ (inbox[s] = <<>>)]
  /\ UNCHANGED <<m_monitorId, m_sessions, m_idToSession, nalloc, sessionId, uri,
                 cancelled, connected, cur, inbox, arrived, delivered, active,
                 pc, arg, snap, lastError,
                 issued, unsubReturned, lastNoop>>
  /\ UNCHANGED userVars
  /\ UNCHANGED restVars

\* a receive() that hands over the newest frame instead of the oldest
handleUserDataStream_receiveNewest(s) ==
  /\ taskState[s] = "waiting"
  /\ ~cancelled[s]
  /\ inbox[s] # <<>>
  /\ cur' = [cur EXCEPT ![s] = inbox[s][Len(inbox[s])]]
  /\ inbox' = [inbox EXCEPT ![s] = SubSeq(@, 1, Len(@) - 1)]
  /\ taskState' = [taskState EXCEPT ![s] = "received"]
  /\ UNCHANGED <<m_monitorId, m_sessions, m_idToSession, nalloc, sessionId, uri,
                 cancelled, connected, arrived, delivered, active,
                 pc, arg, snap, lastError,
                 issued, unsubReturned, lastNoop, wokeByCancel>>
  /\ UNCHANGED userVars
  /\ UNCHANGED restVars

\* line 299: session->client.receive() completes with the next frame
handleUserDataStream_receive(s) ==
  /\ taskState[s] = "waiting"
  /\ ~cancelled[s]
  /\ inbox[s] # <<>>
  /\ cur' = [cur EXCEPT ![s] = Head(inbox[s])]
  /\ inbox' = [inbox EXCEPT ![s] = Tail(@)]
  /\ taskState' = [taskState EXCEPT ![s] = "received"]
  /\ UNCHANGED <<m_monitorId, m_sessions, m_idToSession, nalloc, sessionId, uri,
                 cancelled, connected, arrived, delivered, active,
                 pc, arg, snap, lastError,
                 issued, unsubReturned, lastNoop, wokeByCancel>>
  /\ UNCHANGED userVars
  /\ UNCHANGED restVars

\* lines 301-306 and 342-345: the continuation of receive()
handleUserDataStream_continuation(s) ==
  /\ taskState[s] = "received"
  /\ IF cancelled[s]
       THEN \* line 344: cancel_current_task(); wait() returns canceled
            /\ taskState' = [taskState EXCEPT ![s] = "loop"]
            /\ cur' = [cur EXCEPT ![s] = NoFrame]
       ELSE IF cur[s].kind = "connerr"
       THEN \* line 306: websocketInMessage.get() throws; lines 337-340, 349-352
            /\ taskState' = [taskState EXCEPT ![s] = "faulted"]
            /\ cur' = [cur EXCEPT ![s] = NoFrame]
       ELSE /\ taskState' = [taskState EXCEPT ![s] = "extract"]
            /\ UNCHANGED cur
  /\ UNCHANGED <<m_monitorId, m_sessions, m_idToSession, nalloc, sessionId, uri,
                 cancelled, connected, inbox, arrived, delivered, active,
                 pc, arg, snap, lastError,
                 issued, unsubReturned, lastNoop, wokeByCancel>>
  /\ UNCHANGED userVars
  /\ UNCHANGED restVars

\* lines 310-311: strMsg stays empty when the token is cancelled
strMsg(s) == IF cancelled[s] \/ cur[s].kind = "empty" THEN "empty" ELSE cur[s].kind

\* extractUsdFuturesUserData (declared at line 359; design document, 4.1: on
\* successful decode the callback is invoked synchronously on the loop's own
\* task): onData of the session is entered with the decoded frame
extractUsdFuturesUserData(s) ==
  /\ delivered' = [delivered EXCEPT ![uri[s]] = Append(@, [sess |-> cur[s].sess, seq |-> cur[s].seq])]
  /\ active' = [active EXCEPT ![s] = @ + 1]
  /\ taskState' = [taskState EXCEPT ![s] = "callback"]
  /\ UNCHANGED cur

\* an invalid frame that takes every receive task down
handleUserDataStream_extractFatal(s) ==
  /\ taskState[s] = "extract"
  /\ IF strMsg(s) = "empty"
       THEN /\ taskState' = [taskState EXCEPT ![s] = "loop"]
            /\ cur' = [cur EXCEPT ![s] = NoFrame]
            /\ UNCHANGED <<delivered, active>>
       ELSE IF strMsg(s) = "json"
       THEN extractUsdFuturesUserData(s)
       ELSE /\ taskState' = [o \in SessIds |-> IF taskState[o] = "none" THEN "none" ELSE "faulted"]
            /\ cur' = [cur EXCEPT ![s] = NoFrame]
            /\ UNCHANGED <<delivered, active>>
  /\ UNCHANGED <<m_monitorId, m_sessions, m_idToSession, nalloc, sessionId, uri,
                 cancelled, connected, inbox, arrived,
                 pc, arg, snap, lastError,
                 issued, unsubReturned, lastNoop, wokeByCancel>>
  /\ UNCHANGED userVars
  /\ UNCHANGED restVars

\* lines 310-331: extract the text, parse it, hand it on
handleUserDataStream_extract(s) ==
  /\ taskState[s] = "extract"
  /\ IF strMsg(s) = "empty"
       THEN \* line 320 is false: nothing is done with the frame
            /\ taskState' = [taskState EXCEPT ![s] = "loop"]
            /\ cur' = [cur EXCEPT ![s] = NoFrame]
            /\ UNCHANGED <<delivered, active>>
       ELSE IF strMsg(s) = "json"
       THEN \* line 325
            extractUsdFuturesUserData(s)
       ELSE \* line 329: throw BfcppException("Invalid json: ...")
            /\ taskState' = [taskState EXCEPT ![s] = "faulted"]
            /\ cur' = [cur EXCEPT ![s] = NoFrame]
            /\ UNCHANGED <<delivered, active>>
  /\ UNCHANGED <<m_monitorId, m_sessions, m_idToSession, nalloc, sessionId, uri,
                 cancelled, connected, inbox, arrived,
                 pc, arg, snap, lastError,
                 issued, unsubReturned, lastNoop, wokeByCancel>>
  /\ UNCHANGED userVars
  /\ UNCHANGED restVars

\* onData returns, the continuation ends, wait() at line 347 returns
handleUserDataStream_delivered(s) ==
  /\ taskState[s] = "callback"
  /\ active' = [active EXCEPT ![s] = @ - 1]
  /\ cur' = [cur EXCEPT ![s] = NoFrame]
  /\ taskState' = [taskState EXCEPT ![s] = "loop"]
  /\ UNCHANGED <<m_monitorId, m_sessions, m_idToSession, nalloc, sessionId, uri,
                 cancelled, connected, inbox, arrived, delivered,
                 pc, arg, snap, lastError,
                 issued, unsubReturned, lastNoop, wokeByCancel>>
  /\ UNCHANGED userVars
  /\ UNCHANGED restVars

handleUserDataStream(s) ==
  \/ handleUserDataStream_while(s)
  \/ handleUserDataStream_cancelled(s)
  \/ handleUserDataStream_receive(s)
  \/ handleUserDataStream_continuation(s)
  \/ handleUserDataStream_extract(s)
  \/ handleUserDataStream_delivered(s)

(***************************************************************************)
(* The REST side.  A string is a sequence of tokens: <<"lit", text>> for a *)
(* piece of text, <<"dec", digits>> for a number written in decimal,       *)
(* <<"hmac", key, message>> for the hex text of a MAC.                     *)
(***************************************************************************)
\* wall-clock readings the model covers
MaxClock == 2
\* number of key=value pairs a caller passes
MaxParams == 2

\* the keys of ReceiveWindowMap, lines 33-41
RestCalls == {"NewOrder", "ListenKey", "CancelOrder", "AllOrders", "AccountInfo",
              "AccountBalance", "TakerBuySellVolume", "KlineCandles", "Ping"}
\* the call kinds the model issues and sets windows for
ModelCalls == {"NewOrder", "KlineCandles"}
\* the durations the model passes to setReceiveWindow
Windows == {-1, 250}
\* parameter names, in the order of std::less<string>
ParamKeys == <<"quantity", "side", "symbol">>
ValueOf(k) == CASE k = "quantity" -> "1" [] k = "side" -> "BUY" [] OTHER -> "BTCUSDT"
Creds == {[apiKey |-> "", secretKey |-> ""],
          [apiKey |-> "keyA", secretKey |-> ""],
          [apiKey |-> "keyA", secretKey |-> "secretA"]}
Statuses == {"OK", "BadGateway"}
\* a response body: JSON text, text that is not JSON (an HTML error page), none
Bodies == {"json", "notjson", "empty"}

Lit(x) == <<"lit", x>>

DigitOf(d) == CASE d = 0 -> "0" [] d = 1 -> "1" [] d = 2 -> "2" [] d = 3 -> "3"
                [] d = 4 -> "4" [] d = 5 -> "5" [] d = 6 -> "6" [] d = 7 -> "7"
                [] d = 8 -> "8" [] OTHER -> "9"

RECURSIVE Digits(_)
Digits(n) == IF n < 10 THEN <<DigitOf(n)>> ELSE Digits(n \div 10) \o <<DigitOf(n % 10)>>

\* std::to_string of an integer (line 265), and operator<< of one (line 385)
to_string(n) == <<"dec", IF n < 0 THEN <<"-">> \o Digits(0 - n) ELSE Digits(n)>>

\* line 28
DefaultReceiveWindwow == <<"dec", <<"5", "0", "0", "0">> >>

NoRequest == [call |-> "none", sign |-> FALSE, apiKey |-> "", query |-> <<>>]
NoResponse == [status |-> "none", body |-> "none"]
NoResult == [valid |-> FALSE, rawError |-> "", handled |-> FALSE, raised |-> "none"]
NoBuilt == [call |-> "none", sign |-> FALSE, str |-> <<>>]
NoAttempt == [call |-> "none", sign |-> FALSE, supplied |-> <<>>, secretKey |-> "",
              apiKey |-> "", now |-> 0, window |-> 0]

InitRest ==
  /\ m_apiAccess = [apiKey |-> "", secretKey |-> ""]
  /\ ReceiveWindowMap = [c \in RestCalls |-> DefaultReceiveWindwow]
  /\ now = 1
  /\ restPc = "idle"
  /\ request = NoRequest
  /\ response = NoResponse
  /\ result = NoResult
  /\ restError = "none"
  /\ attempt = NoAttempt
  /\ lastSet = [c \in RestCalls |-> 5000]
  /\ built = NoBuilt

\* the sequences of pairs with distinct keys a caller can write down
RECURSIVE DistinctSeqs(_)
DistinctSeqs(n) ==
  IF n = 0 THEN {<<>>}
  ELSE DistinctSeqs(n - 1) \cup
       {Append(q, ParamKeys[i]) : q \in {r \in DistinctSeqs(n - 1) : Len(r) = n - 1},
                                  i \in DOMAIN ParamKeys}
Supplied == {q \in DistinctSeqs(MaxParams) :
               \A i, j \in DOMAIN q : i # j => q[i] # q[j]}

\* the map<string, string> the caller's pairs make (lines 202-219): the keys
\* it holds, each with its value
MapOf(q) == {q[i] : i \in DOMAIN q}

\* an iteration that visits the keys of the map from the largest down
queryPairs_descending(m) ==
  LET RECURSIVE F(_)
      F(i) == IF i = 0 THEN <<>>
              ELSE (IF ParamKeys[i] \in m
                      THEN <<Lit(ParamKeys[i]), Lit("="), Lit(ValueOf(ParamKeys[i])), Lit("&")>>
                      ELSE <<>>) \o F(i - 1)
  IN F(Len(ParamKeys))

\* lines 378-381: for_each over the map, which visits the keys in ascending
\* order, writes key=value& for each
queryPairs(m) ==
  LET RECURSIVE F(_)
      F(i) == IF i > Len(ParamKeys) THEN <<>>
              ELSE (IF ParamKeys[i] \in m
                      THEN <<Lit(ParamKeys[i]), Lit("="), Lit(ValueOf(ParamKeys[i])), Lit("&")>>
                      ELSE <<>>) \o F(i + 1)
  IN F(1)

\* createSignature (bfcppCommon.hpp, not at hand; design document, 4.3): the
\* hex text of an HMAC of the message keyed by the secret credential; a
\* CredentialError when no secret credential is configured
createSignature(key, msg) ==
  IF key = "" THEN [err |-> "CredentialError", mac |-> <<>>]
  ELSE [err |-> "none", mac |-> <<"hmac", key, msg>>]

\* a signer that signs before the timestamp is appended
createQueryString_early(m, call, sign) ==
  IF sign
    THEN IF call \notin DOMAIN ReceiveWindowMap
           THEN [err |-> "out_of_range", str |-> <<>>]
           ELSE LET qs0 == queryPairs(m) \o <<Lit("recvWindow="), ReceiveWindowMap[call]>>
                    qs == qs0 \o <<Lit("&timestamp="), to_string(now)>>
                    sig == createSignature(m_apiAccess.secretKey, qs0)
                IN  IF sig.err # "none" THEN [err |-> sig.err, str |-> <<>>]
                    ELSE [err |-> "none", str |-> qs \o <<Lit("&signature="), sig.mac>>]
    ELSE [err |-> "none", str |-> queryPairs(m)]

\* lines 373-394
createQueryString(m, call, sign) ==
  IF sign
    THEN IF call \notin DOMAIN ReceiveWindowMap
           THEN \* ReceiveWindowMap.at(call) throws
                [err |-> "out_of_range", str |-> <<>>]
           ELSE LET qs == queryPairs(m) \o <<Lit("recvWindow="), ReceiveWindowMap[call],
                                             Lit("&timestamp="), to_string(now)>>
                    sig == createSignature(m_apiAccess.secretKey, qs)
                IN  IF sig.err # "none" THEN [err |-> sig.err, str |-> <<>>]
                    ELSE [err |-> "none", str |-> qs \o <<Lit("&signature="), sig.mac>>]
    ELSE [err |-> "none", str |-> queryPairs(m)]

\* lines 397-405: the api key goes into the header, the query into the uri
createHttpRequest(call, sign, query) ==
  [call |-> call, sign |-> sign, apiKey |-> m_apiAccess.apiKey, query |-> query]

\* lines 250-253
setApiKeys(access) ==
  /\ m_apiAccess # access
  /\ m_apiAccess' = access
  /\ UNCHANGED <<ReceiveWindowMap, now, restPc, request, response, result,
                 restError, attempt, lastSet>>
  /\ UNCHANGED built
  /\ UNCHANGED streamVars

\* a setter that writes the duration into every entry
setReceiveWindow_all(call, ms) ==
  /\ ReceiveWindowMap' = [c \in DOMAIN ReceiveWindowMap |-> to_string(ms)]
  /\ lastSet' = [lastSet EXCEPT ![call] = ms]
  /\ UNCHANGED <<m_apiAccess, now, restPc, request, response, result,
                 restError, attempt>>
  /\ UNCHANGED built
  /\ UNCHANGED streamVars

\* a setter that leaves the table with the one entry it wrote
setReceiveWindow_only(call, ms) ==
  /\ ReceiveWindowMap' = [c \in {call} |-> to_string(ms)]
  /\ lastSet' = [lastSet EXCEPT ![call] = ms]
  /\ UNCHANGED <<m_apiAccess, now, restPc, request, response, result,
                 restError, attempt>>
  /\ UNCHANGED built
  /\ UNCHANGED streamVars

\* lines 263-266
setReceiveWindow(call, ms) ==
  /\ ReceiveWindowMap' = MapPut(ReceiveWindowMap, call, to_string(ms))
  /\ lastSet' = [lastSet EXCEPT ![call] = ms]
  /\ UNCHANGED <<m_apiAccess, now, restPc, request, response, result,
                 restError, attempt>>
  /\ UNCHANGED built
  /\ UNCHANGED streamVars

\* time passes
tick ==
  /\ now < MaxClock
  /\ now' = now + 1
  /\ UNCHANGED <<m_apiAccess, ReceiveWindowMap, restPc, request, response,
                 result, restError, attempt, lastSet>>
  /\ UNCHANGED built
  /\ UNCHANGED streamVars

\* what the caller asked for, and what was configured when it asked
Attempt(call, sign, q) ==
  [call |-> call, sign |-> sign, supplied |-> q,
   secretKey |-> m_apiAccess.secretKey, apiKey |-> m_apiAccess.apiKey,
   now |-> now, window |-> lastSet[call]]

\* a dispatcher that sends the request whatever building the query threw
sendRestRequest_swallow(call, sign, q) ==
  /\ restPc \in {"idle", "done"}
  /\ LET queryString == createQueryString(MapOf(q), call, TRUE)
     IN  /\ restError' = queryString.err
         /\ request' = createHttpRequest(call, sign, queryString.str)
         /\ restPc' = "sent"
  /\ attempt' = Attempt(call, sign, q)
  /\ response' = NoResponse
  /\ result' = NoResult
  /\ UNCHANGED <<m_apiAccess, ReceiveWindowMap, now, lastSet>>
  /\ UNCHANGED built
  /\ UNCHANGED streamVars

\* lines 414-424 and 437-444: build the query, build the request, dispatch;
\* what createQueryString throws is thrown on to the caller
sendRestRequest(call, sign, q) ==
  /\ restPc \in {"idle", "done"}
  /\ LET \* line 419: the third argument is the constant true
         queryString == createQueryString(MapOf(q), call, TRUE)
     IN  IF queryString.err # "none"
           THEN /\ restError' = queryString.err
                /\ request' = NoRequest
                /\ restPc' = "idle"
           ELSE /\ restError' = "none"
                /\ request' = createHttpRequest(call, sign, queryString.str)
                /\ restPc' = "sent"
  /\ attempt' = Attempt(call, sign, q)
  /\ response' = NoResponse
  /\ result' = NoResult
  /\ UNCHANGED <<m_apiAccess, ReceiveWindowMap, now, lastSet>>
  /\ UNCHANGED built
  /\ UNCHANGED streamVars

\* sendRestRequest as the steps of the calling thread, between which another
\* thread can run: line 419 builds the query, which reads the secret key ...
sendRestRequest_createQueryString(call, sign, q) ==
  /\ restPc \in {"idle", "done"}
  /\ LET queryString == createQueryString(MapOf(q), call, TRUE)
     IN  IF queryString.err # "none"
           THEN /\ restError' = queryString.err
                /\ built' = NoBuilt
                /\ restPc' = "idle"
           ELSE /\ restError' = "none"
                /\ built' = [call |-> call, sign |-> sign, str |-> queryString.str]
                /\ restPc' = "built"
  /\ attempt' = Attempt(call, sign, q)
  /\ request' = NoRequest
  /\ response' = NoResponse
  /\ result' = NoResult
  /\ UNCHANGED <<m_apiAccess, ReceiveWindowMap, now, lastSet>>
  /\ UNCHANGED streamVars

\* ... and lines 421-425 create the request, which reads the api key, and
\* dispatch it
sendRestRequest_createHttpRequest ==
  /\ restPc = "built"
  /\ request' = createHttpRequest(built.call, built.sign, built.str)
  /\ built' = NoBuilt
  /\ restPc' = "sent"
  /\ UNCHANGED <<m_apiAccess, ReceiveWindowMap, now, response, result,
                 restError, attempt, lastSet>>
  /\ UNCHANGED streamVars

\* response.extract_json().get().serialize(), line 433: the body is parsed as
\* JSON and written out again; a body that is not JSON makes get() throw, no
\* body at all parses to the JSON null
extract_json(body) ==
  CASE body = "json" -> [err |-> "none", text |-> "json"]
    [] body = "empty" -> [err |-> "none", text |-> "null"]
    [] OTHER -> [err |-> "http_exception", text |-> ""]

\* createInvalidRestResult (bfcppCommon.hpp, not at hand; design document,
\* 4.4): a result marked invalid that carries the raw error body
createInvalidRestResult(text) ==
  [valid |-> FALSE, rawError |-> text, handled |-> FALSE, raised |-> "none"]

\* the per-call handlers (Futures.cpp, not at hand; design document, 4.4 and
\* 8.6): the JSON body becomes the typed result, a malformed body raises
handler(body) ==
  IF body = "json"
    THEN [valid |-> TRUE, rawError |-> "", handled |-> TRUE, raised |-> "none"]
    ELSE [valid |-> FALSE, rawError |-> "", handled |-> TRUE, raised |-> "ProtocolError"]

\* lines 425-435: the continuation of client.request()
sendRestRequest_then(status, body) ==
  /\ restPc = "sent"
  /\ response' = [status |-> status, body |-> body]
  /\ result' = IF status = "OK"
                 THEN handler(body)
                 ELSE IF extract_json(body).err = "none"
                 THEN createInvalidRestResult(extract_json(body).text)
                 ELSE [valid |-> FALSE, rawError |-> "", handled |-> FALSE,
                       raised |-> extract_json(body).err]
  /\ restPc' = "done"
  /\ UNCHANGED <<m_apiAccess, ReceiveWindowMap, now, request, restError,
                 attempt, lastSet>>
  /\ UNCHANGED built
  /\ UNCHANGED streamVars

(***************************************************************************)
(* The user data stream.  monitorUserData (declared at line 111) and       *)
(* createListenKey (line 370) are defined in Futures.cpp and IntervalTimer *)
(* in IntervalTimer.hpp, neither at hand; they follow the design document, *)
(* 4.5 and 4.6: a listen key is created by a REST call, then the keepalive *)
(* timer is started, then the session is opened with the listen key in its *)
(* uri.  The timer calls onUserDataTimer (lines 278-290) once per          *)
(* interval; when that fails the timer raises one keep-alive error to its  *)
(* owner and stops.  A market object has one listen key.                   *)
(***************************************************************************)
\* number of times the keepalive timer fires
MaxRenewals == 3

\* a monitorUserData that goes on although no listen key was created
createListenKey_proceed(t, status) ==
  /\ pc[t] = "idle"
  /\ m_listenKey = ""
  /\ nalloc < MaxSessions
  /\ m_listenKey' = (IF status = "OK" THEN ListenKey ELSE "")
  /\ pc' = [pc EXCEPT ![t] = "startTimer"]
  /\ lastError' = [lastError EXCEPT ![t] = IF status = "OK" THEN "none" ELSE "ListenKeyError"]
  /\ UNCHANGED <<m_monitorId, m_sessions, m_idToSession, nalloc, sessionId, uri,
                 cancelled, connected, taskState, cur, inbox, arrived,
                 delivered, active, arg, snap,
                 issued, unsubReturned, lastNoop, wokeByCancel>>
  /\ UNCHANGED <<m_userDataStreamTimer, renewLog, keepAliveErrors, closeAll>>
  /\ UNCHANGED restVars

createListenKey(t, status) ==
  /\ pc[t] = "idle"
  /\ m_listenKey = ""
  /\ nalloc < MaxSessions
  /\ IF status = "OK"
       THEN /\ m_listenKey' = ListenKey
            /\ pc' = [pc EXCEPT ![t] = "startTimer"]
            /\ lastError' = [lastError EXCEPT ![t] = "none"]
       ELSE \* no listen key: monitorUserData returns an invalid token
            /\ lastError[t] # "ListenKeyError"
            /\ lastError' = [lastError EXCEPT ![t] = "ListenKeyError"]
            /\ UNCHANGED <<m_listenKey, pc>>
  /\ UNCHANGED <<m_monitorId, m_sessions, m_idToSession, nalloc, sessionId, uri,
                 cancelled, connected, taskState, cur, inbox, arrived,
                 delivered, active, arg, snap,
                 issued, unsubReturned, lastNoop, wokeByCancel>>
  /\ UNCHANGED <<m_userDataStreamTimer, renewLog, keepAliveErrors, closeAll>>
  /\ UNCHANGED restVars

\* m_userDataStreamTimer.start(onUserDataTimer)
startUserDataTimer(t) ==
  /\ pc[t] = "startTimer"
  /\ m_userDataStreamTimer' = "running"
  /\ pc' = [pc EXCEPT ![t] = "connectUser"]
  /\ UNCHANGED <<m_monitorId, m_sessions, m_idToSession, nalloc, sessionId, uri,
                 cancelled, connected, taskState, cur, inbox, arrived,
                 delivered, active, arg, snap, lastError,
                 issued, unsubReturned, lastNoop, wokeByCancel>>
  /\ UNCHANGED <<m_listenKey, renewLog, keepAliveErrors, closeAll>>
  /\ UNCHANGED restVars

\* connect(uri with the listen key); the receive task and the registration
\* follow as for every monitor function
connectUserData(t) ==
  /\ pc[t] = "connectUser"
  /\ nalloc < MaxSessions
  /\ nalloc' = nalloc + 1
  /\ uri' = [uri EXCEPT ![nalloc + 1] = m_listenKey]
  /\ connected' = [connected EXCEPT ![nalloc + 1] = TRUE]
  /\ arg' = [arg EXCEPT ![t] = [id |-> 0, sid |-> nalloc + 1]]
  /\ pc' = [pc EXCEPT ![t] = "createReceiveTask"]
  /\ UNCHANGED <<m_monitorId, m_sessions, m_idToSession, sessionId, cancelled,
                 taskState, cur, inbox, arrived, delivered, active, snap,
                 lastError, issued, unsubReturned, lastNoop, wokeByCancel>>
  /\ UNCHANGED userVars
  /\ UNCHANGED restVars

\* IntervalTimer, when its callback fails: one keep-alive error to the owner,
\* and no further call is scheduled
IntervalTimer_failed ==
  /\ keepAliveErrors' = keepAliveErrors + 1
  /\ m_userDataStreamTimer' = "failed"

\* a renewal that ignores the status of the response
onUserDataTimer_silent(status) ==
  /\ m_userDataStreamTimer = "running"
  /\ Len(renewLog) < MaxRenewals
  /\ renewLog' = Append(renewLog, status)
  /\ UNCHANGED <<keepAliveErrors, m_userDataStreamTimer>>
  /\ UNCHANGED <<m_monitorId, m_sessions, m_idToSession, nalloc, sessionId, uri,
                 cancelled, connected, taskState, cur, inbox, arrived,
                 delivered, active, pc, arg, snap, lastError,
                 issued, unsubReturned, lastNoop, wokeByCancel>>
  /\ UNCHANGED <<m_listenKey, closeAll>>
  /\ UNCHANGED restVars

\* lines 278-290, called by the timer: PUT on the listen key path; the
\* continuation throws when the status is not OK, and wait() throws it on
onUserDataTimer(status) ==
  /\ m_userDataStreamTimer = "running"
  /\ Len(renewLog) < MaxRenewals
  /\ renewLog' = Append(renewLog, status)
  /\ IF status # "OK"
       THEN \* line 287: throw BfcppException
            IntervalTimer_failed
       ELSE UNCHANGED <<keepAliveErrors, m_userDataStreamTimer>>
  /\ UNCHANGED <<m_monitorId, m_sessions, m_idToSession, nalloc, sessionId, uri,
                 cancelled, connected, taskState, cur, inbox, arrived,
                 delivered, active, pc, arg, snap, lastError,
                 issued, unsubReturned, lastNoop, wokeByCancel>>
  /\ UNCHANGED <<m_listenKey, closeAll>>
  /\ UNCHANGED restVars

(***************************************************************************)
(* Specifications.  Spec: one caller thread and the receive tasks.         *)
(* SpecConc: two caller threads.  FairSpec: Spec with the scheduling of    *)
(* the caller's blocked call and of the tasks.  SpecRest: the REST side.   *)
(* SpecUser: the user data stream with its keepalive timer.                *)
(* SpecRestConc: REST calls of one thread while another sets credentials.  *)
(***************************************************************************)
Caller(t) ==
  \/ \E y \in Symbols : connect(t, y)
  \/ \E y \in Symbols : connectFails(t, y)
  \/ createReceiveTask(t)
  \/ registerRead(t)
  \/ createMonitor(t)
  \/ \E id \in TokenIds : cancelMonitor(t, id)
  \/ disconnect(t)

\* the thread that owns the market object also closes every stream
Owner(t) ==
  \/ Caller(t)
  \/ cancelMonitors(t)
  \/ disconnect_all(t)

Init == InitStream /\ InitRest

Next ==
  \/ Owner(1)
  \/ \E s \in SessIds : handleUserDataStream(s)
  \/ \E s \in SessIds, k \in FrameKinds : frameArrives(s, k)

NextConc ==
  \/ \E t \in Threads : Caller(t)
  \/ \E s \in SessIds : handleUserDataStream(s)
  \/ \E s \in SessIds, k \in FrameKinds : frameArrives(s, k)

NextRest ==
  \/ \E access \in Creds : setApiKeys(access)
  \/ \E call \in ModelCalls, ms \in Windows : setReceiveWindow(call, ms)
  \/ tick
  \/ \E call \in ModelCalls, sign \in BOOLEAN, q \in Supplied :
       sendRestRequest(call, sign, q)
  \/ \E status \in Statuses, body \in Bodies : sendRestRequest_then(status, body)

\* the calls of a thread that uses the user data stream
UserCaller(t) ==
  \/ \E status \in Statuses : createListenKey(t, status)
  \/ startUserDataTimer(t)
  \/ connectUserData(t)
  \/ createReceiveTask(t)
  \/ registerRead(t)
  \/ createMonitor(t)
  \/ \E id \in TokenIds : cancelMonitor(t, id)
  \/ disconnect(t)
  \/ cancelMonitors(t)
  \/ disconnect_all(t)

NextUser ==
  \/ UserCaller(1)
  \/ \E status \in Statuses : onUserDataTimer(status)
  \/ \E s \in SessIds : handleUserDataStream(s)
  \/ \E s \in SessIds, k \in FrameKinds : frameArrives(s, k)

\* the credentials a second thread sets while a first one makes calls
CredsConc == Creds \cup {[apiKey |-> "keyB", secretKey |-> "secretB"]}

NextRestConc ==
  \/ \E access \in CredsConc : setApiKeys(access)
  \/ tick
  \/ \E call \in ModelCalls, sign \in BOOLEAN, q \in Supplied :
       sendRestRequest_createQueryString(call, sign, q)
  \/ sendRestRequest_createHttpRequest
  \/ \E status \in Statuses, body \in Bodies : sendRestRequest_then(status, body)

SpecRest == Init /\ [][NextRest]_vars

SpecRestConc == Init /\ [][NextRestConc]_vars

SpecUser == Init /\ [][NextUser]_vars

Spec == Init /\ [][Next]_vars

SpecConc == Init /\ [][NextConc]_vars

\* The caller blocked in disconnect resumes once the receive task is done, and
\* the tasks of the thread pool are scheduled; the arrival of frames and the
\* caller's decisions to call are not fair.
FairSpec ==
  /\ Spec
  /\ WF_vars(disconnect(1))
  /\ WF_vars(disconnect_all(1))
  /\ \A s \in SessIds : WF_vars(handleUserDataStream(s))

(***************************************************************************)
(* The claims on the session registry.                                     *)
(***************************************************************************)
RegistryVars == <<m_monitorId, m_sessions, m_idToSession>>
SessionVars == <<nalloc, sessionId, uri, cancelled, connected, taskState, cur,
                 inbox, arrived, delivered, active>>

\* C1: cancelMonitor with a token whose id is not in m_idToSession raises no
\* error and changes neither the registry nor any session nor any cancel flag;
\* and the id of a token whose cancelMonitor has returned is not in
\* m_idToSession, so a second cancelMonitor on it is such a call.
C1_UnknownTokenIsNoop ==
  [][ /\ \A t \in Threads, id \in TokenIds :
           (cancelMonitor(t, id) /\ id \notin DOMAIN m_idToSession)
             => UNCHANGED <<RegistryVars, SessionVars, pc, arg, lastError>>
      /\ \A id \in unsubReturned' : id \notin DOMAIN m_idToSession'
    ]_vars

\* a token was cancelled a second time, and a token never issued was cancelled
C1_Witness ==
  /\ lastNoop = "unsubscribed"
  /\ unsubReturned # {}

C1_WitnessNeverIssued == lastNoop = "never issued"

\* C2: a caller inside cancelMonitor/disconnect eventually returns, also when
\* no frame ever arrives for the session; and once cancelMonitor has returned
\* for every token issued, the registry holds no session.
C2_UnsubscribeReturns ==
  /\ \A t \in Threads : (pc[t] = "disconnect") ~> (pc[t] = "idle")
  /\ [](issued \subseteq unsubReturned
          => (DOMAIN m_idToSession = {} /\ m_sessions = <<>>))

\* a receive() that was pending with no frame was cut by the cancel, the
\* caller is back, the registry is empty
C2_Witness ==
  /\ \E s \in SessIds :
       /\ wokeByCancel[s]
       /\ arrived[s] = 0
       /\ sessionId[s] \in unsubReturned
  /\ issued # {}
  /\ issued \subseteq unsubReturned
  /\ DOMAIN m_idToSession = {}
  /\ pc[1] = "idle"

\* C3: the frames of one session reach the callback in the order in which
\* they arrived, and one session never has two callback invocations (two
\* frames) in progress at once.
C3_ArrivalOrder ==
  /\ \A y \in Symbols : \A i, j \in DOMAIN delivered[y] :
       (i < j /\ delivered[y][i].sess = delivered[y][j].sess)
         => delivered[y][i].seq < delivered[y][j].seq
  /\ \A s \in SessIds :
       /\ active[s] <= 1
       /\ (active[s] = 1) <=> (taskState[s] = "callback")
       /\ taskState[s] = "callback" =>
            \E i \in DOMAIN delivered[uri[s]] :
              /\ delivered[uri[s]][i] = [sess |-> s, seq |-> cur[s].seq]
              /\ \A j \in DOMAIN delivered[uri[s]] :
                   delivered[uri[s]][j].sess = s => j <= i

\* two frames of one session were delivered
C3_Witness ==
  \E y \in Symbols : \E i, j \in DOMAIN delivered[y] :
    i < j /\ delivered[y][i].sess = delivered[y][j].sess

\* C4: two concurrent subscribe calls yield distinct tokens mapped to distinct
\* sessions, and a frame of one session is delivered to that session's
\* callback only.
C4_ConcurrentSubscribe ==
  /\ \A s1, s2 \in SessIds :
       (s1 # s2 /\ sessionId[s1] # 0 /\ sessionId[s2] # 0)
         => sessionId[s1] # sessionId[s2]
  /\ \A s \in SessIds :
       (sessionId[s] \in issued /\ ~cancelled[s])
         => /\ sessionId[s] \in DOMAIN m_idToSession
            /\ m_idToSession[sessionId[s]] = s
  /\ \A y \in Symbols : \A i \in DOMAIN delivered[y] :
       uri[delivered[y][i].sess] = y

\* C5: a step in which one receive task ends on an error changes no other
\* session and not the registry; the other sessions go on receiving, and
\* the caller can still subscribe and unsubscribe.
C5_ErrorIsLocal ==
  /\ [][ \A s \in SessIds :
           (taskState[s] # "faulted" /\ taskState'[s] = "faulted")
             => /\ \A o \in SessIds \ {s} :
                     /\ taskState'[o] = taskState[o]
                     /\ cancelled'[o] = cancelled[o]
                     /\ connected'[o] = connected[o]
                     /\ inbox'[o] = inbox[o]
                     /\ cur'[o] = cur[o]
                /\ UNCHANGED <<RegistryVars, delivered, pc, arg, lastError>>
       ]_vars
  /\ [](\A s, o \in SessIds :
          (s # o /\ taskState[s] = "faulted")
            => /\ (taskState[o] = "waiting" /\ ~cancelled[o] /\ inbox[o] # <<>>)
                    => ENABLED handleUserDataStream_receive(o)
               /\ (taskState[o] = "extract" /\ strMsg(o) = "json")
                    => ENABLED handleUserDataStream_extract(o)
               /\ (pc[1] = "idle" /\ nalloc < MaxSessions)
                    => ENABLED connect(1, "BTCUSDT")
               /\ (pc[1] = "idle" /\ sessionId[s] \in DOMAIN m_idToSession)
                    => ENABLED cancelMonitor(1, sessionId[s]))

\* one session's task ended on an error while another session, still
\* registered, is inside its callback
C5_Witness ==
  \E s, o \in SessIds :
    /\ s # o
    /\ taskState[s] = "faulted"
    /\ taskState[o] = "callback"
    /\ sessionId[o] \in DOMAIN m_idToSession
    /\ sessionId[s] \in DOMAIN m_idToSession

\* C12: a cancelMonitors call returns, and when it returns every session has
\* its cancel flag set, every receive task has exited and the registry is
\* empty, whatever subscribe and unsubscribe calls came before it.
C12_CloseAllClosesAll ==
  /\ \A t \in Threads : (pc[t] = "disconnectAll") ~> (pc[t] = "idle")
  /\ [][ closeAll' # closeAll =>
           /\ closeAll'.returned
           /\ \A s \in 1 .. nalloc' :
                /\ cancelled'[s]
                /\ taskState'[s] \in {"canceled", "faulted"}
           /\ m_sessions' = <<>>
           /\ DOMAIN m_idToSession' = {}
       ]_vars

\* cancelMonitors returned after closing two sessions, one that had ended on
\* an error and one whose pending receive() it cut; a third was unsubscribed
\* before
C12_Witness ==
  /\ closeAll.returned
  /\ Cardinality(closeAll.sessions) >= 2
  /\ \E s \in closeAll.sessions : taskState[s] = "faulted"
  /\ \E s \in closeAll.sessions : wokeByCancel[s]
  /\ pc[1] = "idle"


DeliveredOf(s) == SelectSeq(delivered[uri[s]], LAMBDA f : f.sess = s)

C15_IdsNeverReused ==
  /\ [](/\ m_monitorId >= 1
        /\ \A s \in SessIds :
             sessionId[s] # 0 => (1 <= sessionId[s] /\ sessionId[s] < m_monitorId)
        /\ \A id \in issued \cup unsubReturned : 1 <= id /\ id < m_monitorId
        /\ \A s1, s2 \in SessIds :
             (sessionId[s1] = sessionId[s2] /\ sessionId[s1] # 0) => s1 = s2)
  /\ [][ /\ m_monitorId' >= m_monitorId
         /\ \A s \in SessIds :
              sessionId'[s] # sessionId[s] =>
                /\ sessionId[s] = 0
                /\ sessionId'[s] = m_monitorId
                /\ m_monitorId' = m_monitorId + 1
                /\ sessionId'[s] \notin issued \cup unsubReturned
                /\ \A o \in SessIds : sessionId[o] # sessionId'[s]
         /\ \A id \in issued' \ issued :
              /\ id \notin unsubReturned
              /\ \E s \in SessIds : sessionId[s] = id
       ]_vars

\* a token was given out after another had been unsubscribed, while the
\* other thread was inside a call
C15_Witness ==
  /\ \E id \in unsubReturned : \E id2 \in issued \ unsubReturned : id2 > id
  /\ pc[1] # "idle" \/ pc[2] # "idle"

\* the state of a subscription (design document, 4.6), from the number of
\* sessions connected, the place of the receive task and the cancel flag
SubscriptionState(na, s, ts, c) ==
  IF s > na THEN "Requested"
  ELSE IF ts = "none" THEN "Connecting"
  ELSE IF ts = "faulted" THEN "Broken"
  ELSE IF ts = "canceled" THEN "Closed"
  ELSE IF c THEN "Closing"
  ELSE "Streaming"

Transitions == {<<"Requested", "Connecting">>, <<"Connecting", "Streaming">>,
                <<"Streaming", "Closing">>, <<"Closing", "Closed">>,
                <<"Streaming", "Broken">>}

C17_NoSilentDrop ==
  [][ \A s \in SessIds :
        (cur[s] # NoFrame /\ cur'[s] = NoFrame /\ ~cancelled[s]) =>
          \/ taskState'[s] = "faulted"
          \/ \E i \in DOMAIN delivered[uri[s]] :
               delivered[uri[s]][i] = [sess |-> s, seq |-> cur[s].seq]
    ]_vars

\* a thread is between its read and its write of the registry
InRegistry(t) == pc[t] = "registerWrite"

\* C20: no thread reads or writes m_idToSession while another thread is
\* between its read and its write of it, and m_idToSession is changed by
\* subscribe, unsubscribe and closeAll only.
C20_MutualExclusion ==
  [][ /\ \A t \in Threads : \A o \in Threads \ {t} :
           InRegistry(o) =>
             ~(\/ registerRead(t)
               \/ createMonitor(t)
               \/ disconnect(t)
               \/ \E id \in TokenIds : cancelMonitor(t, id))
      /\ m_idToSession' # m_idToSession =>
           \E t \in Threads : createMonitor(t) \/ disconnect(t) \/ disconnect_all(t)
    ]_vars

(***************************************************************************)
(* The claims on the user data stream.                                     *)
(***************************************************************************)
\* C11: the keepalive timer raises a keep-alive error exactly when a renewal
\* got a status that is not OK, it raises at most one, and no renewal is made
\* after the one that failed: when every renewal fails, the renewal runs once
\* and one error is raised.
C11_OneKeepAliveError ==
  /\ keepAliveErrors <= 1
  /\ (keepAliveErrors = 1) <=> (\E i \in DOMAIN renewLog : renewLog[i] # "OK")
  /\ \A i \in DOMAIN renewLog : renewLog[i] # "OK" => i = Len(renewLog)
  /\ (keepAliveErrors = 1) <=> (m_userDataStreamTimer = "failed")
  /\ (renewLog # <<>> /\ renewLog[1] # "OK") => Len(renewLog) = 1

\* the first renewal failed, the error was raised, and the session of the
\* user data stream went on to deliver a frame
C11_Witness ==
  /\ renewLog = <<"BadGateway">>
  /\ keepAliveErrors = 1
  /\ m_userDataStreamTimer = "failed"
  /\ delivered[ListenKey] # <<>>

\* C21: the keepalive timer is started only when a listen key has been
\* created, the session of the user data stream is opened only when the
\* timer has been started, and its uri carries that listen key; a
\* monitorUserData whose listen key could not be created starts no timer and
\* opens no session.
C21_UserDataOrder ==
  /\ [](/\ m_userDataStreamTimer # "stopped" => m_listenKey = ListenKey
        /\ m_listenKey = "" => nalloc = 0
        /\ \A s \in 1 .. nalloc :
             /\ uri[s] = m_listenKey
             /\ m_listenKey = ListenKey
             /\ m_userDataStreamTimer # "stopped"
        /\ \A t \in Threads :
             /\ pc[t] = "startTimer" =>
                  /\ m_listenKey = ListenKey
                  /\ m_userDataStreamTimer = "stopped"
                  /\ nalloc = 0
             /\ pc[t] = "connectUser" =>
                  /\ m_userDataStreamTimer # "stopped"
                  /\ nalloc = 0)
  /\ [][ \A t \in Threads :
           (lastError'[t] = "ListenKeyError" /\ lastError[t] # "ListenKeyError") =>
             /\ pc'[t] = "idle"
             /\ UNCHANGED <<m_listenKey, m_userDataStreamTimer, nalloc, uri,
                            connected, taskState, RegistryVars>>
       ]_vars

\* the session of the user data stream is registered and has delivered a
\* frame, its uri is the listen key, and the timer has renewed the key once
C21_Witness ==
  /\ \E id \in DOMAIN m_idToSession :
       /\ uri[m_idToSession[id]] = ListenKey
       /\ DeliveredOf(m_idToSession[id]) # <<>>
  /\ m_userDataStreamTimer = "running"
  /\ renewLog = <<"OK">>

(***************************************************************************)
(* The claims on the REST side.                                            *)
(***************************************************************************)
\* reading a decimal text back
CharVal(c) == CASE c = "0" -> 0 [] c = "1" -> 1 [] c = "2" -> 2 [] c = "3" -> 3
                [] c = "4" -> 4 [] c = "5" -> 5 [] c = "6" -> 6 [] c = "7" -> 7
                [] c = "8" -> 8 [] OTHER -> 9

RECURSIVE DigitsValue(_)
DigitsValue(ds) ==
  IF ds = <<>> THEN 0
  ELSE 10 * DigitsValue(SubSeq(ds, 1, Len(ds) - 1)) + CharVal(ds[Len(ds)])

DecValue(tok) ==
  IF tok[2][1] = "-" THEN 0 - DigitsValue(Tail(tok[2])) ELSE DigitsValue(tok[2])

Rank(k) == CHOOSE i \in DOMAIN ParamKeys : ParamKeys[i] = k

Dispatched == request # NoRequest
NumPairs == Len(attempt.supplied)
\* the i-th key=value& of the query of the request
PairIs(i, k) ==
  /\ request.query[4 * (i - 1) + 1] = Lit(k)
  /\ request.query[4 * (i - 1) + 2] = Lit("=")
  /\ request.query[4 * (i - 1) + 3] = Lit(ValueOf(k))
  /\ request.query[4 * i] = Lit("&")

\* C6: a response whose status is not OK never raises: the call completes
\* with an invalid result that carries the non-empty response body, and the
\* handler is not invoked; the handler is invoked exactly when the status is OK.
C6_NonOkNeverRaises ==
  restPc = "done" =>
    /\ result.handled <=> (response.status = "OK")
    /\ response.status # "OK" =>
         /\ result.raised = "none"
         /\ ~result.valid
         /\ result.rawError # ""
         /\ response.body = "json" => result.rawError = "json"

\* C7: the query of a signed request is the caller's pairs, then
\* recvWindow=<window of the call kind>&timestamp=<now>, then
\* &signature=<MAC>, the MAC keyed by the configured secret and taken over
\* exactly what precedes &signature=.
C7_SignedQuery ==
  Dispatched =>
    LET q == request.query
        n == Len(q)
        p == 4 * NumPairs
    IN  /\ n = p + 6
        /\ \A i \in DOMAIN attempt.supplied :
             \E j \in 1 .. NumPairs : PairIs(j, attempt.supplied[i])
        /\ q[p + 1] = Lit("recvWindow=")
        /\ DecValue(q[p + 2]) = attempt.window
        /\ q[p + 3] = Lit("&timestamp=")
        /\ DecValue(q[p + 4]) = attempt.now
        /\ q[p + 5] = Lit("&signature=")
        /\ q[n] = <<"hmac", attempt.secretKey, SubSeq(q, 1, p + 4)>>

\* a request with two caller pairs was signed and dispatched
C7_Witness ==
  /\ Dispatched
  /\ NumPairs = 2
  /\ attempt.secretKey = "secretA"
  /\ attempt.now = MaxClock

\* C8, as stated: the i-th pair of the query is the i-th pair the caller
\* supplied.
C8_CallerOrder ==
  Dispatched => \A i \in DOMAIN attempt.supplied : PairIs(i, attempt.supplied[i])

\* C8, amended: the query lists the caller's pairs in ascending order of
\* their keys, each followed by '&', whatever the order they were supplied in.
C8_KeyOrder ==
  Dispatched =>
    \E ks \in Supplied :
      /\ MapOf(ks) = MapOf(attempt.supplied)
      /\ Len(ks) = NumPairs
      /\ \A i \in DOMAIN ks : PairIs(i, ks[i])
      /\ \A i, j \in DOMAIN ks : i < j => Rank(ks[i]) < Rank(ks[j])

\* the caller wrote symbol before side, and the request was dispatched
C8_Witness ==
  /\ Dispatched
  /\ attempt.supplied = <<"symbol", "side">>

\* the query of the request has the piece of text x
HasLit(x) == \E i \in DOMAIN request.query : request.query[i] = Lit(x)

\* C9: a call made while no secret key is configured fails at once with a
\* credential error, and no request is dispatched.
C9_NoSecretNoRequest ==
  (attempt # NoAttempt /\ attempt.secretKey = "") =>
    /\ restError = "CredentialError"
    /\ ~Dispatched
    /\ restPc = "idle"

\* a call was made with an api key but an empty secret key, and was refused
C9_Witness ==
  /\ attempt # NoAttempt
  /\ attempt.apiKey = "keyA"
  /\ attempt.secretKey = ""
  /\ restError = "CredentialError"

\* C10: every entry of the receive-window table holds the duration last set
\* for its call kind, 5000 when none was (so setting one kind leaves the
\* others alone), and a signed request carries the entry of its own kind.
C10_ReceiveWindowPerCall ==
  /\ \A c \in RestCalls :
       /\ c \in DOMAIN ReceiveWindowMap
       /\ DecValue(ReceiveWindowMap[c]) = lastSet[c]
  /\ DOMAIN ReceiveWindowMap = RestCalls
  /\ Dispatched => DecValue(request.query[4 * NumPairs + 2]) = attempt.window

\* a NewOrder request carries the 250 set for NewOrder while KlineCandles was
\* set to something else and AllOrders is still at the default
C10_Witness ==
  /\ Dispatched
  /\ attempt.call = "NewOrder"
  /\ DecValue(request.query[4 * NumPairs + 2]) = 250
  /\ lastSet["KlineCandles"] = -1
  /\ ReceiveWindowMap["AllOrders"] = DefaultReceiveWindwow

\* C18: the query of a dispatched request carries recvWindow, timestamp and
\* signature when the call was made with sign = true, and none of the three
\* when it was made with sign = false.
C18_SignedIffRequested ==
  Dispatched =>
    /\ attempt.sign =>
         HasLit("recvWindow=") /\ HasLit("&timestamp=") /\ HasLit("&signature=")
    /\ ~attempt.sign =>
         ~HasLit("recvWindow=") /\ ~HasLit("&timestamp=") /\ ~HasLit("&signature=")

\* C19: the api key in the header of a dispatched request and the secret key
\* its signature was made with are the two keys of one credential pair that
\* was set.
C19_CredentialPair ==
  Dispatched =>
    \E c \in CredsConc :
      /\ request.apiKey = c.apiKey
      /\ request.query[Len(request.query)][1] = "hmac"
      /\ request.query[Len(request.query)][2] = c.secretKey

\* C22: the receive-window table has an entry for each of the nine call
\* kinds in every state, no step removes an entry, and building the signed
\* query of a call of any kind finds the entry of that kind: no call fails
\* on the lookup.
C22_ReceiveWindowTotal ==
  /\ [](/\ RestCalls \subseteq DOMAIN ReceiveWindowMap
        /\ Cardinality(DOMAIN ReceiveWindowMap) = 9
        /\ \A c \in RestCalls : createQueryString({}, c, TRUE).err # "out_of_range"
        /\ restError # "out_of_range")
  /\ [][ \A c \in DOMAIN ReceiveWindowMap : c \in DOMAIN ReceiveWindowMap' ]_vars

\* the window of NewOrder was set, and a request of another kind, whose
\* window never was, has been signed and dispatched
C22_Witness ==
  /\ lastSet["NewOrder"] = 250
  /\ ReceiveWindowMap["NewOrder"] # DefaultReceiveWindwow
  /\ Dispatched
  /\ attempt.call = "KlineCandles"
  /\ attempt.window = 5000
=============================================================================
